---- MODULE Spec2Model ----
(***************************************************************************)
(* Model of calc.rs: a table-driven LL(1) calculator.  One parse stack     *)
(* holds terminals, non-terminals and semantic actions; a value stack      *)
(* holds the operands.  The input source (stdin) is the environment: each  *)
(* getc() delivers one byte chosen by the environment, or end of file.     *)
(*                                                                         *)
(* f64 values are modelled as sign/magnitude rationals with the IEEE       *)
(* specials (signed zero, infinities, NaN); rounding and overflow of the   *)
(* mantissa/exponent are not modelled (operands are small integers).       *)
(***************************************************************************)
EXTENDS Integers, Sequences, FiniteSets, TLC

\* Bound on the bytes the source delivers when it delivers arbitrary bytes.
MaxBytes == 4
\* Bound on the bytes the source delivers when it delivers well-formed lines.
MaxLineBytes == 6

(***************************************************************************)
(* f64                                                                     *)
(***************************************************************************)
RECURSIVE Gcd(_, _)
Gcd(a, b) == IF b = 0 THEN a ELSE Gcd(b, a % b)

\* [s, n, d]: sign s, magnitude n/d.  d = 0, n = 1 is an infinity;
\* d = 0, n = 0 is NaN (one NaN: every NaN prints as "NaN").
NaN == [s |-> 1, n |-> 0, d |-> 0]
Norm(s, n, d) ==
    IF n = 0 /\ d = 0 THEN NaN
    ELSE LET g == Gcd(n, d) IN [s |-> s, n |-> n \div g, d |-> d \div g]
F(k) == [s |-> 1, n |-> k, d |-> 1]
IsNaN(x) == x.n = 0 /\ x.d = 0
IsInf(x) == x.n # 0 /\ x.d = 0
Abs(k) == IF k < 0 THEN -k ELSE k

\* -a
FNeg(a) == IF IsNaN(a) THEN NaN ELSE [a EXCEPT !.s = -a.s]
\* a + b
FAdd(a, b) ==
    IF IsNaN(a) \/ IsNaN(b) THEN NaN
    ELSE IF IsInf(a) /\ IsInf(b) THEN (IF a.s = b.s THEN a ELSE NaN)
    ELSE IF IsInf(a) THEN a
    ELSE IF IsInf(b) THEN b
    ELSE LET num == a.s * a.n * b.d + b.s * b.n * a.d
             den == a.d * b.d
         IN  IF num = 0
             THEN [s |-> IF a.s = -1 /\ b.s = -1 THEN -1 ELSE 1, n |-> 0, d |-> 1]
             ELSE Norm(IF num < 0 THEN -1 ELSE 1, Abs(num), den)
\* a - b
FSub(a, b) == FAdd(a, FNeg(b))
\* a * b
FMul(a, b) ==
    IF IsNaN(a) \/ IsNaN(b) THEN NaN
    ELSE Norm(a.s * b.s, a.n * b.n, a.d * b.d)
\* a / b
FDiv(a, b) ==
    IF IsNaN(a) \/ IsNaN(b) THEN NaN
    ELSE Norm(a.s * b.s, a.n * b.d, a.d * b.n)

(***************************************************************************)
(* Tokens                                                                  *)
(***************************************************************************)
ETerminal == {"OP", "CP", "NUMBER", "PLUS", "MINUS", "TIMES", "DIVIDE", "NL", "END"}
ENonTerminal == {"Start", "Expr", "ExprP", "Term", "TermP", "Fact", "Line"}
EAction == {"Negate", "Add", "Subtract", "Times", "Divide", "Push", "Print"}

\* A terminal value; only NUMBER carries a payload.
NUMBER(x) == [tag |-> "NUMBER", val |-> x]
Plain(tag) == [tag |-> tag, val |-> F(0)]
END == Plain("END")

\* PartialEq for ETerminal: the discriminant only.
TerminalEq(a, b) == a.tag = b.tag

Terminal(t) == [kind |-> "Terminal", sym |-> t]
NonTerminal(n) == [kind |-> "NonTerminal", sym |-> n]
Action(a) == [kind |-> "Action", sym |-> a]

(***************************************************************************)
(* Parse table: one definition per entry, in source order.                 *)
(***************************************************************************)
CP_ExprP == << >>
CP_TermP == << >>
DIVIDE_TermP == <<Terminal("DIVIDE"), NonTerminal("Fact"), Action("Divide"), NonTerminal("TermP")>>
\* End of input taken for the start of another line.
END_Start_AsLine == <<NonTerminal("Line"), NonTerminal("Start")>>
END_Start == << >>
MINUS_Expr == <<NonTerminal("Term"), NonTerminal("ExprP")>>
\* The action after the tail's continuation: a right fold.
MINUS_ExprP_ActionLast == <<Terminal("MINUS"), NonTerminal("Term"), NonTerminal("ExprP"), Action("Subtract")>>
MINUS_ExprP == <<Terminal("MINUS"), NonTerminal("Term"), Action("Subtract"), NonTerminal("ExprP")>>
\* The unary minus matched but never applied.
MINUS_Fact_NoNegate == <<Terminal("MINUS"), NonTerminal("Fact")>>
MINUS_Fact == <<Terminal("MINUS"), NonTerminal("Fact"), Action("Negate")>>
MINUS_Line == <<NonTerminal("Expr"), Action("Print"), Terminal("NL")>>
MINUS_Start == <<NonTerminal("Line"), NonTerminal("Start")>>
MINUS_Term == <<NonTerminal("Fact"), NonTerminal("TermP")>>
MINUS_TermP == << >>
NL_ExprP == << >>
\* No production for the empty line.
NL_Line_AsExpr == <<NonTerminal("Expr"), Action("Print"), Terminal("NL")>>
NL_Line == <<Terminal("NL")>>
\* A newline at Start taken for the end of the session.
NL_Start_AsEnd == << >>
NL_Start == <<NonTerminal("Line"), NonTerminal("Start")>>
NL_TermP == << >>
\* A left-recursive production.
NUMBER_Expr_LeftRecursive == <<NonTerminal("Expr"), NonTerminal("ExprP")>>
NUMBER_Expr == <<NonTerminal("Term"), NonTerminal("ExprP")>>
\* The operand matched but never pushed.
NUMBER_Fact_NoPush == <<Terminal("NUMBER")>>
NUMBER_Fact == <<Terminal("NUMBER"), Action("Push")>>
\* The line's value is never printed.
NUMBER_Line_NoPrint == <<NonTerminal("Expr"), Terminal("NL")>>
NUMBER_Line == <<NonTerminal("Expr"), Action("Print"), Terminal("NL")>>
NUMBER_Start == <<NonTerminal("Line"), NonTerminal("Start")>>
NUMBER_Term == <<NonTerminal("Fact"), NonTerminal("TermP")>>
OP_Expr == <<NonTerminal("Term"), NonTerminal("ExprP")>>
OP_Fact == <<Terminal("OP"), NonTerminal("Expr"), Terminal("CP")>>
\* The result printed after the newline has been matched.
OP_Line_PrintAfterNL == <<NonTerminal("Expr"), Terminal("NL"), Action("Print")>>
OP_Line == <<NonTerminal("Expr"), Action("Print"), Terminal("NL")>>
OP_Start == <<NonTerminal("Line"), NonTerminal("Start")>>
OP_Term == <<NonTerminal("Fact"), NonTerminal("TermP")>>
PLUS_ExprP == <<Terminal("PLUS"), NonTerminal("Term"), Action("Add"), NonTerminal("ExprP")>>
PLUS_TermP == << >>
TIMES_TermP == <<Terminal("TIMES"), NonTerminal("Fact"), Action("Times"), NonTerminal("TermP")>>

\* The HashMap: keys are (terminal tag, non-terminal).
table ==
    (<<"CP", "ExprP">> :> CP_ExprP) @@
    (<<"CP", "TermP">> :> CP_TermP) @@
    (<<"DIVIDE", "TermP">> :> DIVIDE_TermP) @@
    (<<"END", "Start">> :> END_Start) @@
    (<<"MINUS", "Expr">> :> MINUS_Expr) @@
    (<<"MINUS", "ExprP">> :> MINUS_ExprP) @@
    (<<"MINUS", "Fact">> :> MINUS_Fact) @@
    (<<"MINUS", "Line">> :> MINUS_Line) @@
    (<<"MINUS", "Start">> :> MINUS_Start) @@
    (<<"MINUS", "Term">> :> MINUS_Term) @@
    (<<"MINUS", "TermP">> :> MINUS_TermP) @@
    (<<"NL", "ExprP">> :> NL_ExprP) @@
    (<<"NL", "Line">> :> NL_Line) @@
    (<<"NL", "Start">> :> NL_Start) @@
    (<<"NL", "TermP">> :> NL_TermP) @@
    (<<"NUMBER", "Expr">> :> NUMBER_Expr) @@
    (<<"NUMBER", "Fact">> :> NUMBER_Fact) @@
    (<<"NUMBER", "Line">> :> NUMBER_Line) @@
    (<<"NUMBER", "Start">> :> NUMBER_Start) @@
    (<<"NUMBER", "Term">> :> NUMBER_Term) @@
    (<<"OP", "Expr">> :> OP_Expr) @@
    (<<"OP", "Fact">> :> OP_Fact) @@
    (<<"OP", "Line">> :> OP_Line) @@
    (<<"OP", "Start">> :> OP_Start) @@
    (<<"OP", "Term">> :> OP_Term) @@
    (<<"PLUS", "ExprP">> :> PLUS_ExprP) @@
    (<<"PLUS", "TermP">> :> PLUS_TermP) @@
    (<<"TIMES", "TermP">> :> TIMES_TermP)

(***************************************************************************)
(* Input source                                                            *)
(***************************************************************************)
\* The byte 0; getc() also returns it at end of file.
NUL == "NUL"
Digits == {"0", "1", "2", "3", "4", "5", "6", "7", "8", "9"}
DigitVal(ch) ==
    CASE ch = "0" -> 0 [] ch = "1" -> 1 [] ch = "2" -> 2 [] ch = "3" -> 3
      [] ch = "4" -> 4 [] ch = "5" -> 5 [] ch = "6" -> 6 [] ch = "7" -> 7
      [] ch = "8" -> 8 [] ch = "9" -> 9

\* Bytes an arbitrary source delivers ("x" stands for any unrecognized byte).
AnyBytes == {"0", "2", "+", "-", "*", "/", "(", ")", "\n", " ", "x", NUL}
\* Digits a source of well-formed lines delivers.
LineDigits == {"2", "3"}

RECURSIVE LastLine(_)
\* The bytes delivered after the last newline.
LastLine(read) ==
    IF read = << >> \/ read[Len(read)] = "\n" THEN << >>
    ELSE Append(LastLine(SubSeq(read, 1, Len(read) - 1)), read[Len(read)])

RECURSIVE ParenDepth(_)
ParenDepth(text) ==
    IF text = << >> THEN 0
    ELSE LET ch == text[Len(text)]
             rest == ParenDepth(SubSeq(text, 1, Len(text) - 1))
         IN  IF ch = "(" THEN rest + 1 ELSE IF ch = ")" THEN rest - 1 ELSE rest

\* The bytes that extend the current line to a prefix of a well-formed line.
LineBytes(read) ==
    LET text == LastLine(read)
        last == IF text = << >> THEN "\n" ELSE text[Len(text)]
    IN  IF last \in {"\n", "+", "-", "*", "/", "("}
        THEN LineDigits \cup {"(", "-"} \cup (IF text = << >> THEN {"\n"} ELSE {})
        ELSE {"+", "-", "*", "/"}
             \cup (IF ParenDepth(text) > 0 THEN {")"} ELSE {"\n"})

\* The bytes the source may deliver next.
Offer(src) ==
    IF src.feed = "any"
    THEN (IF Len(src.read) < MaxBytes THEN AnyBytes ELSE {})
    ELSE (IF Len(src.read) < MaxLineBytes THEN LineBytes(src.read) ELSE {})

\* A source that delivers bytes again after it has reported its end.
getcAfterEnd(src) ==
    {[c |-> NUL, src |-> [src EXCEPT !.eof = TRUE]]}
    \cup {[c |-> b, src |-> [src EXCEPT !.read = Append(@, b)]] : b \in Offer(src)}

\* getc(): the set of (byte returned, source afterwards).  A read of 0 bytes
\* leaves the buffer 0; end of file persists.
getc(src) ==
    {[c |-> NUL, src |-> [src EXCEPT !.eof = TRUE]]}
    \cup (IF src.eof THEN {}
          ELSE {[c |-> b, src |-> [src EXCEPT !.read = Append(@, b)]] : b \in Offer(src)})

(***************************************************************************)
(* Lexer                                                                   *)
(***************************************************************************)
Line(kind, arg) == [kind |-> kind, arg |-> arg]

RECURSIVE lexDigits(_, _, _, _)
\* The digit loop: c is a digit.
lexDigits(c, val, src, msgs) ==
    LET v == FAdd(FMul(val, F(10)), F(DigitVal(c)))
    IN  UNION { IF g.c \in Digits
                THEN lexDigits(g.c, v, g.src, msgs)
                ELSE {[terminal |-> NUMBER(v), c |-> g.c, src |-> g.src, msgs |-> msgs]}
              : g \in getc(src) }

RECURSIVE lexLoop(_, _, _)
\* An unrecognized character reported and taken for the end of the input.
lexLoopInvalidEnds(c, src, msgs) ==
    LET done(tag) == {[terminal |-> Plain(tag), c |-> NUL, src |-> src, msgs |-> msgs]}
    IN  CASE c \in {" ", "\t"} -> UNION { lexLoop(g.c, g.src, msgs) : g \in getc(src) }
          [] c = NUL -> done("END")
          [] c = "\n" -> done("NL")
          [] c \in Digits -> lexDigits(c, F(0), src, msgs)
          [] c = "+" -> done("PLUS")
          [] c = "-" -> done("MINUS")
          [] c = "*" -> done("TIMES")
          [] c = "/" -> done("DIVIDE")
          [] c = "(" -> done("OP")
          [] c = ")" -> done("CP")
          [] OTHER ->
              {[terminal |-> END, c |-> NUL, src |-> src,
                msgs |-> Append(msgs, [line |-> Line("Invalid char", c), pos |-> Len(src.read)])]}

lexLoop(c, src, msgs) ==
    LET done(tag) == {[terminal |-> Plain(tag), c |-> NUL, src |-> src, msgs |-> msgs]}
    IN  CASE c \in {" ", "\t"} -> UNION { lexLoop(g.c, g.src, msgs) : g \in getc(src) }
          [] c = NUL -> done("END")
          [] c = "\n" -> done("NL")
          [] c \in Digits -> lexDigits(c, F(0), src, msgs)
          [] c = "+" -> done("PLUS")
          [] c = "-" -> done("MINUS")
          [] c = "*" -> done("TIMES")
          [] c = "/" -> done("DIVIDE")
          [] c = "(" -> done("OP")
          [] c = ")" -> done("CP")
          [] OTHER ->
              LET m == Append(msgs, [line |-> Line("Invalid char", c), pos |-> Len(src.read)])
              IN  UNION { lexLoop(g.c, g.src, m) : g \in getc(src) }

\* lex(&mut c): every outcome the source allows.
lex(c, src) ==
    IF c = NUL
    THEN UNION { lexLoop(g.c, g.src, << >>) : g \in getc(src) }
    ELSE lexLoop(c, src, << >>)

(***************************************************************************)
(* State                                                                   *)
(***************************************************************************)
VARIABLES source,  \* stdin: [feed, read (bytes delivered so far), eof]
    c,            \* lex state: the pending character
    lexeme,       \* lookahead token
    prev_lexeme,  \* previous token
    stack,        \* parse stack (top is the last element)
    values,       \* value stack (top is the last element)
    out,          \* stdout: the lines printed so far
    outPos,       \* history: bytes delivered when each line of out was printed
    status        \* "init", "running", "success", "failure", "panic"

vars == <<source, c, lexeme, prev_lexeme, stack, values, out, outPos, status>>

\* The lines lex printed, and the bytes delivered when it printed each.
MsgLines(msgs) == [i \in 1..Len(msgs) |-> msgs[i].line]
MsgPoss(msgs) == [i \in 1..Len(msgs) |-> msgs[i].pos]
Reverse(s) == [i \in 1..Len(s) |-> s[Len(s) + 1 - i]]
Top(s) == s[Len(s)]
Pop(s) == SubSeq(s, 1, Len(s) - 1)

InitFeed(feed) ==
    /\ source = [feed |-> feed, read |-> << >>, eof |-> FALSE]
    /\ c = NUL
    /\ lexeme = END
    /\ prev_lexeme = END
    /\ stack = <<NonTerminal("Start")>>
    /\ values = << >>
    /\ out = << >>
    /\ outPos = << >>
    /\ status = "init"

Init == \E feed \in {"any", "lines"} : InitFeed(feed)

\* println!: append the lines to stdout.
println(lines) ==
    /\ out' = out \o lines
    /\ outPos' = outPos \o [i \in 1..Len(lines) |-> Len(source.read)]

\* The TRACE line printed at the top of each iteration.
TraceLine == Line("trace", <<lexeme.tag, stack>>)
\* The TRACE line printed after an action.
ValuesLine(vs) == Line("values", vs)

\* let mut lexeme = lex(&mut c);
ReadFirst ==
    /\ status = "init"
    /\ \E r \in lex(c, source) :
        /\ lexeme' = r.terminal
        /\ c' = r.c
        /\ source' = r.src
        /\ out' = out \o MsgLines(r.msgs)
        /\ outPos' = outPos \o MsgPoss(r.msgs)
    /\ status' = "running"
    /\ UNCHANGED <<prev_lexeme, stack, values>>

\* Report and carry on with the next symbol instead of returning.
SyntaxErrorContinue ==
    /\ println(<<TraceLine, Line("syntax error", << >>)>>)
    /\ stack' = Pop(stack)
    /\ UNCHANGED <<source, c, lexeme, prev_lexeme, values, status>>

\* Return the failure status without the report.
SyntaxErrorSilent ==
    /\ println(<<TraceLine>>)
    /\ stack' = Pop(stack)
    /\ status' = "failure"
    /\ UNCHANGED <<source, c, lexeme, prev_lexeme, values>>

\* println!("syntax error"); return ExitCode::from(1);
SyntaxError ==
    /\ println(<<TraceLine, Line("syntax error", << >>)>>)
    /\ stack' = Pop(stack)
    /\ status' = "failure"
    /\ UNCHANGED <<source, c, lexeme, prev_lexeme, values>>

\* The terminal popped without reading the next token.
MatchTerminalKeepsLookahead ==
    /\ status = "running"
    /\ stack # << >>
    /\ Top(stack).kind = "Terminal"
    /\ IF ~TerminalEq(Plain(Top(stack).sym), lexeme)
       THEN SyntaxError
       ELSE /\ prev_lexeme' = lexeme
            /\ println(<<TraceLine>>)
            /\ stack' = Pop(stack)
            /\ UNCHANGED <<source, c, lexeme, values, status>>

\* Terminal on top: verify the match, read the next token.
MatchTerminal ==
    /\ status = "running"
    /\ stack # << >>
    /\ Top(stack).kind = "Terminal"
    /\ IF ~TerminalEq(Plain(Top(stack).sym), lexeme)
       THEN SyntaxError
       ELSE /\ prev_lexeme' = lexeme
            /\ \E r \in lex(c, source) :
                /\ lexeme' = r.terminal
                /\ c' = r.c
                /\ source' = r.src
                /\ out' = Append(out, TraceLine) \o MsgLines(r.msgs)
                /\ outPos' = Append(outPos, Len(source.read)) \o MsgPoss(r.msgs)
            /\ stack' = Pop(stack)
            /\ UNCHANGED <<values, status>>

\* A missing table entry taken for an empty production.
ExpandMissAsEpsilon ==
    /\ status = "running"
    /\ stack # << >>
    /\ Top(stack).kind = "NonTerminal"
    /\ LET key == <<lexeme.tag, Top(stack).sym>>
       IN  /\ stack' = Pop(stack) \o (IF key \in DOMAIN table THEN Reverse(table[key]) ELSE << >>)
           /\ println(<<TraceLine>>)
           /\ UNCHANGED <<source, c, lexeme, prev_lexeme, values, status>>

\* Non-terminal on top: replace it with the production's right-hand side.
Expand ==
    /\ status = "running"
    /\ stack # << >>
    /\ Top(stack).kind = "NonTerminal"
    /\ LET key == <<lexeme.tag, Top(stack).sym>>
       IN  IF key \notin DOMAIN table
           THEN SyntaxError
           ELSE /\ stack' = Pop(stack) \o Reverse(table[key])
                /\ println(<<TraceLine>>)
                /\ UNCHANGED <<source, c, lexeme, prev_lexeme, values, status>>

\* Values::pop panics on an empty vector.
Panic ==
    /\ println(<<TraceLine>>)
    /\ stack' = Pop(stack)
    /\ status' = "panic"
    /\ UNCHANGED <<source, c, lexeme, prev_lexeme, values>>

Arity(a) ==
    CASE a = "Negate" -> 1
      [] a \in {"Add", "Subtract", "Times", "Divide"} -> 2
      [] a = "Push" -> 0
      [] a = "Print" -> 1

Negate(vs) == Append(Pop(vs), FNeg(Top(vs)))
\* let b = values.pop(); let a = values.pop(); values.push(a + b);
Add(vs) == LET n == Len(vs) IN Append(SubSeq(vs, 1, n - 2), FAdd(vs[n - 1], vs[n]))
\* A slip in the operand order: b - a.
SubtractSwapped(vs) == LET n == Len(vs) IN Append(SubSeq(vs, 1, n - 2), FSub(vs[n], vs[n - 1]))
Subtract(vs) == LET n == Len(vs) IN Append(SubSeq(vs, 1, n - 2), FSub(vs[n - 1], vs[n]))
Times(vs) == LET n == Len(vs) IN Append(SubSeq(vs, 1, n - 2), FMul(vs[n - 1], vs[n]))
\* A slip in the operand order: b / a.
DivideSwapped(vs) == LET n == Len(vs) IN Append(SubSeq(vs, 1, n - 2), FDiv(vs[n], vs[n - 1]))
Divide(vs) == LET n == Len(vs) IN Append(SubSeq(vs, 1, n - 2), FDiv(vs[n - 1], vs[n]))
Push(vs) == Append(vs, prev_lexeme.val)
\* The result printed but left on the stack.
PrintResultKeepsValue(vs) == vs
PrintResult(vs) == Pop(vs)

\* The value stack after the action.
ActValues(a, vs) ==
    CASE a = "Negate" -> Negate(vs)
      [] a = "Add" -> Add(vs)
      [] a = "Subtract" -> Subtract(vs)
      [] a = "Times" -> Times(vs)
      [] a = "Divide" -> Divide(vs)
      [] a = "Push" -> Push(vs)
      [] a = "Print" -> PrintResult(vs)

\* Action on top: execute it against the value stack.
DoAction ==
    /\ status = "running"
    /\ stack # << >>
    /\ Top(stack).kind = "Action"
    /\ LET a == Top(stack).sym
       IN  IF Len(values) < Arity(a) \/ (a = "Push" /\ prev_lexeme.tag # "NUMBER")
           THEN Panic
           ELSE /\ values' = ActValues(a, values)
                /\ println(<<TraceLine>>
                           \o (IF a = "Print" THEN <<Line("result", Top(values))>> ELSE << >>)
                           \o <<ValuesLine(ActValues(a, values))>>)
                /\ stack' = Pop(stack)
                /\ UNCHANGED <<source, c, lexeme, prev_lexeme, status>>

\* Empty stack: break, ExitCode::SUCCESS.
Halt ==
    /\ status = "running"
    /\ stack = << >>
    /\ println(<<TraceLine>>)
    /\ status' = "success"
    /\ UNCHANGED <<source, c, lexeme, prev_lexeme, stack, values>>

Next == ReadFirst \/ MatchTerminal \/ Expand \/ DoAction \/ Halt

Spec == Init /\ [][Next]_vars

(***************************************************************************)
(* Reference reading of the input: tokens of a line, well-formedness and   *)
(* value by splitting at the last operator of lowest precedence.           *)
(***************************************************************************)
read == source.read

SymbolTag(ch) ==
    CASE ch = "+" -> "PLUS" [] ch = "-" -> "MINUS" [] ch = "*" -> "TIMES"
      [] ch = "/" -> "DIVIDE" [] ch = "(" -> "OP" [] ch = ")" -> "CP"
      [] ch = NUL -> "END"

RECURSIVE RefTokens(_)
\* Tokens of a text without newlines: [tag, k], k the integer of a NUMBER.
RefTokens(text) ==
    IF text = << >> THEN << >>
    ELSE LET n == Len(text)
             ch == text[n]
             front == RefTokens(SubSeq(text, 1, n - 1))
         IN  IF ch \in Digits
             THEN IF n > 1 /\ text[n - 1] \in Digits
                  THEN [front EXCEPT ![Len(front)].k = @ * 10 + DigitVal(ch)]
                  ELSE Append(front, [tag |-> "NUMBER", k |-> DigitVal(ch)])
             ELSE IF ch \in {"+", "-", "*", "/", "(", ")", NUL}
                  THEN Append(front, [tag |-> SymbolTag(ch), k |-> 0])
                  ELSE front

Tags(toks) == [i \in 1..Len(toks) |-> toks[i].tag]

\* Parenthesis depth in front of token i.
DepthAt(toks, i) ==
    Cardinality({j \in 1..(i - 1) : toks[j].tag = "OP"})
    - Cardinality({j \in 1..(i - 1) : toks[j].tag = "CP"})

\* Positions of the binary operators of the given set outside parentheses.
TopBinary(toks, ops) ==
    {i \in 2..Len(toks) : /\ toks[i].tag \in ops
                          /\ toks[i - 1].tag \in {"NUMBER", "CP"}
                          /\ DepthAt(toks, i) = 0}

SetMax(S) == CHOOSE m \in S : \A x \in S : x <= m

Apply(op, a, b) ==
    CASE op = "PLUS" -> FAdd(a, b)
      [] op = "MINUS" -> FSub(a, b)
      [] op = "TIMES" -> FMul(a, b)
      [] op = "DIVIDE" -> FDiv(a, b)

RECURSIVE IsExpr(_), IsTerm(_), IsFact(_)
IsExpr(toks) ==
    LET S == TopBinary(toks, {"PLUS", "MINUS"})
    IN  IF S = {} THEN IsTerm(toks)
        ELSE LET i == SetMax(S)
             IN  IsExpr(SubSeq(toks, 1, i - 1)) /\ IsTerm(SubSeq(toks, i + 1, Len(toks)))
IsTerm(toks) ==
    LET S == TopBinary(toks, {"TIMES", "DIVIDE"})
    IN  IF S = {} THEN IsFact(toks)
        ELSE LET i == SetMax(S)
             IN  IsTerm(SubSeq(toks, 1, i - 1)) /\ IsFact(SubSeq(toks, i + 1, Len(toks)))
IsFact(toks) ==
    /\ toks # << >>
    /\ CASE toks[1].tag = "NUMBER" -> Len(toks) = 1
         [] toks[1].tag = "MINUS" -> IsFact(Tail(toks))
         [] toks[1].tag = "OP" ->
                /\ Len(toks) >= 3
                /\ toks[Len(toks)].tag = "CP"
                /\ IsExpr(SubSeq(toks, 2, Len(toks) - 1))
         [] OTHER -> FALSE

\* A well-formed line: an expression with balanced parentheses.
WellFormed(toks) ==
    /\ \A i \in 1..(Len(toks) + 1) : DepthAt(toks, i) >= 0
    /\ DepthAt(toks, Len(toks) + 1) = 0
    /\ IsExpr(toks)

RECURSIVE RefExpr(_), RefTerm(_), RefFact(_)
\* Value of a well-formed expression.
RefExpr(toks) ==
    LET S == TopBinary(toks, {"PLUS", "MINUS"})
    IN  IF S = {} THEN RefTerm(toks)
        ELSE LET i == SetMax(S)
             IN  Apply(toks[i].tag, RefExpr(SubSeq(toks, 1, i - 1)),
                       RefTerm(SubSeq(toks, i + 1, Len(toks))))
RefTerm(toks) ==
    LET S == TopBinary(toks, {"TIMES", "DIVIDE"})
    IN  IF S = {} THEN RefFact(toks)
        ELSE LET i == SetMax(S)
             IN  Apply(toks[i].tag, RefTerm(SubSeq(toks, 1, i - 1)),
                       RefFact(SubSeq(toks, i + 1, Len(toks))))
RefFact(toks) ==
    CASE toks[1].tag = "NUMBER" -> F(toks[1].k)
      [] toks[1].tag = "MINUS" -> FNeg(RefFact(Tail(toks)))
      [] toks[1].tag = "OP" -> RefExpr(SubSeq(toks, 2, Len(toks) - 1))

\* Positions of the newlines delivered so far.
NLPos == {p \in 1..Len(read) : read[p] = "\n"}
\* Start of the line that position p lies on.
LineStart(p) == LET B == {q \in NLPos : q < p} IN IF B = {} THEN 1 ELSE SetMax(B) + 1
\* Tokens of the line that ends with the newline at p.
LineTokens(p) == RefTokens(SubSeq(read, LineStart(p), p - 1))
\* Index of the line that the token ending at position p lies on.
LineOf(p) == Cardinality({q \in NLPos : q < p})
\* Every line before the one ending at p is empty or well-formed.
PriorLinesOK(p) ==
    \A q \in NLPos : q < p => (LineTokens(q) = << >> \/ WellFormed(LineTokens(q)))

\* Indices of the printed lines of a kind.
Printed(kind) == {i \in 1..Len(out) : out[i].kind = kind}
Results == Printed("result")
Errors == Printed("syntax error")
Ended == status \in {"success", "failure", "panic"}

(***************************************************************************)
(* Properties                                                              *)
(***************************************************************************)
\* Result i was printed with the newline at outPos[i] as lookahead, and the
\* line that newline ends is well-formed.
OnWellFormedLine(i) ==
    /\ outPos[i] \in NLPos
    /\ WellFormed(LineTokens(outPos[i]))

\* C1: the value printed for a well-formed line is the value of the reference
\* evaluator (* and / bind tighter than + and -, parentheses first), and every
\* well-formed line the session reaches gets exactly one result.  The lines
\* of the source of well-formed lines are the reference's well-formed lines.
C1_ResultIsReferenceValue ==
    /\ source.feed = "lines" =>
          \A p \in NLPos : LineTokens(p) = << >> \/ WellFormed(LineTokens(p))
    /\ \A i \in Results :
         OnWellFormedLine(i) => out[i].arg = RefExpr(LineTokens(outPos[i]))
    /\ \A p \in NLPos :
         (WellFormed(LineTokens(p)) /\ PriorLinesOK(p)) =>
            /\ Cardinality({i \in Results : outPos[i] = p}) <= 1
            /\ (Ended \/ Len(read) > p) => \E i \in Results : outPos[i] = p
            /\ Len(read) = p => status \notin {"failure", "panic"}

\* A line with + in front of * has been evaluated: 2+3*2 gave 8.
C1_Witness ==
    \E i \in Results :
        /\ OnWellFormedLine(i)
        /\ Tags(LineTokens(outPos[i])) = <<"NUMBER", "PLUS", "NUMBER", "TIMES", "NUMBER">>
        /\ LineTokens(outPos[i])[1].k = 2
        /\ LineTokens(outPos[i])[3].k = 3
        /\ LineTokens(outPos[i])[5].k = 2
        /\ out[i].arg = F(8)

\* Result i is the value of a line whose tokens have exactly these tags.
ResultOfShape(i, tags) ==
    /\ outPos[i] \in NLPos
    /\ Tags(LineTokens(outPos[i])) = tags

AddOps == {"PLUS", "MINUS"}
MulOps == {"TIMES", "DIVIDE"}

\* C2: a line a op1 b op2 c with both operators of the same precedence is
\* evaluated left to right: the result is (a op1 b) op2 c; and a binary
\* action runs while the tail's continuation (ExprP for Add and Subtract,
\* TermP for Times and Divide) is still unexpanded right below it.
C2_SamePrecedenceLeftToRight ==
    /\ \A i \in Results : \A op1, op2 \in AddOps \cup MulOps :
          (/\ (op1 \in AddOps) = (op2 \in AddOps)
           /\ ResultOfShape(i, <<"NUMBER", op1, "NUMBER", op2, "NUMBER">>)) =>
              LET t == LineTokens(outPos[i])
              IN  out[i].arg = Apply(op2, Apply(op1, F(t[1].k), F(t[3].k)), F(t[5].k))
    /\ (status = "running" /\ stack # << >> /\ Top(stack).kind = "Action"
          /\ Arity(Top(stack).sym) = 2) =>
              /\ Len(stack) >= 2
              /\ stack[Len(stack) - 1] =
                    NonTerminal(IF Top(stack).sym \in {"Add", "Subtract"} THEN "ExprP" ELSE "TermP")

\* A chain whose right fold differs has been evaluated: 3-2-2 gave -1, not 3.
C2_Witness ==
    \E i \in Results :
        /\ ResultOfShape(i, <<"NUMBER", "MINUS", "NUMBER", "MINUS", "NUMBER">>)
        /\ LineTokens(outPos[i])[1].k = 3
        /\ LineTokens(outPos[i])[3].k = 2
        /\ LineTokens(outPos[i])[5].k = 2
        /\ out[i].arg = FNeg(F(1))

RECURSIVE NegTimes(_, _)
\* x negated k times.
NegTimes(k, x) == IF k = 0 THEN x ELSE FNeg(NegTimes(k - 1, x))

\* The tags are k MINUS followed by one NUMBER.
MinusesThenNumber(tags) ==
    /\ Len(tags) >= 1
    /\ tags[Len(tags)] = "NUMBER"
    /\ \A j \in 1..(Len(tags) - 1) : tags[j] = "MINUS"

C4_NoResultOnFailedLine ==
    \A i \in Results : \A j \in Errors : LineOf(outPos[i]) # LineOf(outPos[j])

\* Every line is well-formed and non-empty, and the input ends after the
\* last newline.
AllLinesWellFormed ==
    /\ source.eof
    /\ read # << >>
    /\ Len(read) \in NLPos
    /\ \A p \in NLPos : WellFormed(LineTokens(p))

\* The printed results, in order.
ResultValues == LET r == SelectSeq(out, LAMBDA l : l.kind = "result")
                IN  [i \in 1..Len(r) |-> r[i].arg]
\* The positions of the newlines, in order.
RECURSIVE Sorted(_)
Sorted(S) == IF S = {} THEN << >>
             ELSE LET m == SetMax(S) IN Append(Sorted(S \ {m}), m)

\* C5: when the session ends on an input of k well-formed non-empty lines,
\* exactly k results have been printed, the i-th the value of the i-th line.
C5_OneResultPerLineInOrder ==
    (Ended /\ AllLinesWellFormed) =>
        /\ status = "success"
        /\ LET ps == Sorted(NLPos)
           IN  ResultValues = [i \in 1..Len(ps) |-> RefExpr(LineTokens(ps[i]))]

\* Two lines with different values have been evaluated in order.
C5_Witness ==
    /\ Ended
    /\ AllLinesWellFormed
    /\ Cardinality(NLPos) = 2
    /\ Len(ResultValues) = 2
    /\ ResultValues[1] # ResultValues[2]

\* C6: the first syntax error ends the session with the failure status; no
\* step is taken once the report is printed (no token consumed, no action
\* executed, nothing printed).
C6_NothingAfterSyntaxError ==
    [][/\ Errors = {}
       /\ Errors' # {} => status' = "failure"]_vars

\* A syntax error was reported after a result, with input still to come.
C6_Witness ==
    /\ Errors # {}
    /\ Results # {}
    /\ status = "failure"
    /\ ~source.eof

\* C7: whenever an action is on top of the parse stack the value stack holds
\* at least its arity, and Push finds a NUMBER as the previous token; no
\* panic is reachable.
C7_NoUnderflowNoPanic ==
    /\ status # "panic"
    /\ (status = "running" /\ stack # << >> /\ Top(stack).kind = "Action") =>
          /\ Len(values) >= Arity(Top(stack).sym)
          /\ Top(stack).sym = "Push" => prev_lexeme.tag = "NUMBER"

\* A binary action is about to run on a value stack that holds exactly its
\* two operands.
C7_Witness ==
    /\ status = "running"
    /\ stack # << >>
    /\ Top(stack) = Action("Divide")
    /\ Len(values) = 2

\* The newline at p ends a line without tokens that the session reaches.
EmptyLineAt(p) ==
    /\ p \in NLPos
    /\ LineTokens(p) = << >>
    /\ PriorLinesOK(p)

\* C8: an empty line prints neither a result nor a syntax error, is absorbed
\* by Start -> Line Start and Line -> NL with the value stack left empty, and
\* the session is still running when its newline is matched.
C8_EmptyLineAbsorbed ==
    \A p \in NLPos :
        EmptyLineAt(p) =>
            /\ \A i \in Results \cup Errors : outPos[i] # p
            /\ (Len(read) = p /\ lexeme.tag = "NL") =>
                  /\ status = "running"
                  /\ values = << >>
                  /\ stack \in {<<NonTerminal("Start")>>,
                                <<NonTerminal("Start"), NonTerminal("Line")>>,
                                <<NonTerminal("Start"), Terminal("NL")>>}

\* An empty line lies between two evaluated lines.
C8_Witness ==
    \E p \in NLPos :
        /\ EmptyLineAt(p)
        /\ \E i, j \in Results : outPos[i] < p /\ p < outPos[j]

\* The lines a step adds to stdout are TRACE lines only.
NoNewOutput ==
    /\ Len(out') >= Len(out)
    /\ \A i \in (Len(out) + 1)..Len(out') : out'[i].kind \in {"trace", "values"}

\* C9: with end of input as lookahead and the parse stack [Start], the step
\* empties the parse stack (Start -> epsilon), and the step on the empty parse
\* stack ends the session with the success status; neither prints a result
\* or an error, nor reads input.
C9_EndOfInputHalts ==
    [][/\ (status = "running" /\ lexeme.tag = "END" /\ stack = <<NonTerminal("Start")>>) =>
             (stack' = << >> /\ status' = "running" /\ NoNewOutput /\ source' = source)
       /\ (status = "running" /\ stack = << >>) =>
             (status' = "success" /\ NoNewOutput /\ source' = source)]_vars

\* The session on the empty input has ended with success.
C9_Witness ==
    /\ status = "success"
    /\ read = << >>
    /\ lexeme.tag = "END"
    /\ stack = << >>

\* The popped symbol is a terminal that does not tag-match the lookahead, or
\* a non-terminal without a table entry for the lookahead.
NoMatchOrNoEntry ==
    /\ status = "running"
    /\ stack # << >>
    /\ \/ Top(stack).kind = "Terminal" /\ Top(stack).sym # lexeme.tag
       \/ Top(stack).kind = "NonTerminal" /\ <<lexeme.tag, Top(stack).sym>> \notin DOMAIN table

\* C10: the session has the failure status exactly when a syntax error line
\* has been printed; that line is printed once and is the last line of
\* stdout; and a step prints it exactly when the popped terminal does not
\* tag-match the lookahead or the (lookahead, non-terminal) pair has no entry.
C10_SyntaxErrorReported ==
    [][/\ (status' = "failure") = (Errors' # {})
       /\ Cardinality(Errors') <= 1
       /\ Errors' # {} => Len(out') \in Errors'
       /\ (Errors' # Errors) = NoMatchOrNoEntry]_vars

\* A terminal mismatch has been reported, as the last line of stdout.
C10_Witness ==
    /\ status = "failure"
    /\ Errors = {Len(out)}
    /\ out[Len(out) - 1].kind = "trace"
    /\ Top(out[Len(out) - 1].arg[2]).kind = "Terminal"

\* Line i of stdout is the "trace" line of an iteration of the loop that
\* popped a terminal matching the lookahead.
IsMatch(i) ==
    /\ out[i].kind = "trace"
    /\ out[i].arg[2] # << >>
    /\ Top(out[i].arg[2]) = Terminal(out[i].arg[1])
Matches == {i \in 1..Len(out) : IsMatch(i)}
RECURSIVE LastMatch(_)
\* The last match among the first i lines of stdout, 0 if there is none.
LastMatch(i) == IF i = 0 \/ IsMatch(i) THEN i ELSE LastMatch(i - 1)
\* The iterations since the last terminal match (all of them if there is none).
SinceMatch == {i \in (LastMatch(Len(out)) + 1)..Len(out) : out[i].kind = "trace"}
\* The depth of the parse stack right after the last terminal match.
DepthAfterMatch ==
    LET m == LastMatch(Len(out)) IN IF m = 0 THEN 1 ELSE Len(out[m].arg[2]) - 1

\* C11: the loop cannot run forever on a finite input.  Between two terminal
\* matches there are at most (parse stack depth after the match) pops by
\* actions and epsilon productions, one expansion per non-terminal and the
\* final iteration; every match consumes a token of the input; and a session
\* that has ended has an empty parse stack and the success status, or a
\* reported syntax error and the failure status.
C11_LoopHalts ==
    /\ Cardinality(SinceMatch) <= DepthAfterMatch + Cardinality(ENonTerminal) + 1
    /\ Cardinality(Matches) <= Len(read)
    /\ Ended => \/ status = "success" /\ stack = << >>
                \/ status = "failure" /\ Errors # {}

\* A session of five matched tokens has ended with success.
C11_Witness ==
    /\ status = "success"
    /\ Cardinality(Matches) >= 5
    /\ source.eof

(***************************************************************************)
(* The LL(1) table of a grammar, by FIRST and FOLLOW.                      *)
(***************************************************************************)
Prod(lhs, rhs) == [lhs |-> lhs, rhs |-> rhs]

\* The grammar as section 4.2 of the specification writes it.
GrammarAsWritten ==
    { Prod("Start", <<NonTerminal("Line"), NonTerminal("Start")>>),
      Prod("Start", << >>),
      Prod("Line", <<NonTerminal("Expr"), Action("Print"), Terminal("NL")>>),
      Prod("ExprP", <<Terminal("PLUS"), NonTerminal("Term"), Action("Add"), NonTerminal("ExprP")>>),
      Prod("ExprP", <<Terminal("MINUS"), NonTerminal("Term"), Action("Subtract"), NonTerminal("ExprP")>>),
      Prod("ExprP", << >>),
      Prod("Expr", <<NonTerminal("Term"), NonTerminal("ExprP")>>),
      Prod("TermP", <<Terminal("TIMES"), NonTerminal("Fact"), Action("Times"), NonTerminal("TermP")>>),
      Prod("TermP", <<Terminal("DIVIDE"), NonTerminal("Fact"), Action("Divide"), NonTerminal("TermP")>>),
      Prod("TermP", << >>),
      Prod("Term", <<NonTerminal("Fact"), NonTerminal("TermP")>>),
      Prod("Fact", <<Terminal("NUMBER"), Action("Push")>>),
      Prod("Fact", <<Terminal("OP"), NonTerminal("Expr"), Terminal("CP")>>),
      Prod("Fact", <<Terminal("MINUS"), NonTerminal("Fact"), Action("Negate")>>) }

\* The same grammar with the empty line that section 8 names: Line -> NL.
GrammarWithEmptyLine ==
    GrammarAsWritten \cup { Prod("Line", <<Terminal("NL")>>) }

\* The symbols of rhs can all derive the empty string, given the nullable
\* non-terminals.
NullableSeq(rhs, nullable) ==
    \A i \in 1..Len(rhs) :
        \/ rhs[i].kind = "Action"
        \/ rhs[i].kind = "NonTerminal" /\ rhs[i].sym \in nullable

RECURSIVE NullableOf(_, _)
NullableOf(G, nullable) ==
    LET more == {p.lhs : p \in {q \in G : NullableSeq(q.rhs, nullable)}}
    IN  IF more = nullable THEN nullable ELSE NullableOf(G, more)

RECURSIVE FirstOfSeq(_, _, _)
\* FIRST of a sequence of symbols, given FIRST of the non-terminals.
FirstOfSeq(rhs, first, nullable) ==
    IF rhs = << >> THEN {}
    ELSE CASE rhs[1].kind = "Terminal" -> {rhs[1].sym}
           [] rhs[1].kind = "Action" -> FirstOfSeq(Tail(rhs), first, nullable)
           [] rhs[1].kind = "NonTerminal" ->
                first[rhs[1].sym]
                \cup (IF rhs[1].sym \in nullable
                      THEN FirstOfSeq(Tail(rhs), first, nullable) ELSE {})

RECURSIVE FirstOf(_, _, _)
FirstOf(G, first, nullable) ==
    LET more == [N \in ENonTerminal |->
                    UNION {FirstOfSeq(p.rhs, first, nullable) : p \in {q \in G : q.lhs = N}}]
    IN  IF more = first THEN first ELSE FirstOf(G, more, nullable)

RECURSIVE FollowOf(_, _, _, _)
FollowOf(G, follow, first, nullable) ==
    LET after(p, i) == SubSeq(p.rhs, i + 1, Len(p.rhs))
        more == [N \in ENonTerminal |->
                    follow[N] \cup
                    UNION { UNION { FirstOfSeq(after(p, i), first, nullable)
                                    \cup (IF NullableSeq(after(p, i), nullable)
                                          THEN follow[p.lhs] ELSE {})
                                  : i \in {j \in 1..Len(p.rhs) : p.rhs[j] = NonTerminal(N)} }
                          : p \in G }]
    IN  IF more = follow THEN follow ELSE FollowOf(G, more, first, nullable)

\* The keys (lookahead, non-terminal) of the LL(1) table of G; END follows
\* the start symbol.
LL1Keys(G) ==
    LET nullable == NullableOf(G, {})
        first == FirstOf(G, [N \in ENonTerminal |-> {}], nullable)
        follow == FollowOf(G, [N \in ENonTerminal |-> IF N = "Start" THEN {"END"} ELSE {}],
                           first, nullable)
    IN  UNION { {<<t, p.lhs>> : t \in FirstOfSeq(p.rhs, first, nullable)
                                     \cup (IF NullableSeq(p.rhs, nullable)
                                           THEN follow[p.lhs] ELSE {})}
              : p \in G }

KeysAsWritten == LL1Keys(GrammarAsWritten)
KeysWithEmptyLine == LL1Keys(GrammarWithEmptyLine)

\* Every iteration that popped a non-terminal printed `syntax error` next
\* exactly when its (lookahead, non-terminal) pair is outside the keys.
MissIsSyntaxError(keys) ==
    \A i \in 1..Len(out) :
        (/\ out[i].kind = "trace"
         /\ out[i].arg[2] # << >>
         /\ Top(out[i].arg[2]).kind = "NonTerminal"
         /\ (i < Len(out) \/ Ended)) =>
            ((<<out[i].arg[1], Top(out[i].arg[2]).sym>> \notin keys)
               = (i < Len(out) /\ out[i + 1].kind = "syntax error"))

\* C12 (as claimed): the key set of the table is the 27 pairs of the LL(1)
\* table of the specification's grammar, and a pair outside it is a miss
\* that yields a syntax error.
C12_KeysAre27OfGrammar ==
    /\ DOMAIN table = KeysAsWritten
    /\ Cardinality(DOMAIN table) = 27
    /\ MissIsSyntaxError(KeysAsWritten)

\* C12 (amended): the key set of the table is the 28 pairs of the LL(1)
\* table of the specification's grammar with the production Line -> NL, and
\* a pair outside it is a miss that yields a syntax error.
C12_KeysAre28OfGrammarWithEmptyLine ==
    /\ DOMAIN table = KeysWithEmptyLine
    /\ Cardinality(DOMAIN table) = 28
    /\ Cardinality(KeysAsWritten) = 26
    /\ KeysWithEmptyLine \ KeysAsWritten = {<<"NL", "Line">>, <<"NL", "Start">>}
    /\ MissIsSyntaxError(KeysWithEmptyLine)

\* Both a hit on a pair the written grammar lacks and a miss have happened:
\* an empty line was expanded and a later lookup failed.
C12_Witness ==
    /\ status = "failure"
    /\ \E i \in 1..Len(out) :
          /\ out[i].kind = "trace"
          /\ out[i].arg[1] = "NL"
          /\ out[i].arg[2] # << >>
          /\ Top(out[i].arg[2]) = NonTerminal("Line")
    /\ out[Len(out) - 1].kind = "trace"
    /\ Top(out[Len(out) - 1].arg[2]).kind = "NonTerminal"

(***************************************************************************)
(* Steps of the engine against the tokens of the bytes they scan.          *)
(***************************************************************************)
RECURSIVE AllTokens(_)
\* Tokens of a text with its newlines.
AllTokens(text) ==
    LET P == {p \in 1..Len(text) : text[p] = "\n"}
    IN  IF P = {} THEN RefTokens(text)
        ELSE LET p == SetMax(P)
             IN  AllTokens(SubSeq(text, 1, p - 1))
                 \o <<[tag |-> "NL", k |-> 0]>>
                 \o RefTokens(SubSeq(text, p + 1, Len(text)))

\* Reference token tok is the terminal term.
SameToken(tok, term) ==
    /\ tok.tag = term.tag
    /\ tok.tag = "NUMBER" => term.val = F(tok.k)

\* The bytes a step scanned into its token: the pending character, the bytes
\* it read, less the character that ended a digit run.
Scanned ==
    LET new == SubSeq(source'.read, Len(source.read) + 1, Len(source'.read))
        all == (IF c = NUL THEN << >> ELSE <<c>>) \o new
    IN  IF lexeme'.tag = "NUMBER" /\ all # << >> /\ all[Len(all)] \notin Digits
        THEN Pop(all) ELSE all

\* C13: a step that pops a terminal equal to the lookahead replaces the
\* lookahead by exactly one token, the one token of the bytes it scans (the
\* end token when the source has none left); a step that pops a non-terminal
\* or an action, and a failed match, leave the lookahead, the pending
\* character and the source where they were.
C13_MatchAdvancesOneToken ==
    [][ (status = "running" /\ stack # << >>) =>
          IF Top(stack) = Terminal(lexeme.tag)
          THEN /\ prev_lexeme' = lexeme
               /\ LET T == AllTokens(Scanned)
                  IN  \/ Len(T) = 1 /\ SameToken(T[1], lexeme')
                      \/ T = << >> /\ lexeme' = END /\ source'.eof
          ELSE UNCHANGED <<lexeme, source, c>> ]_vars

\* A matched + was replaced by a number whose digit run a newline ended,
\* and the expansions since have left that lookahead in place.
C13_Witness ==
    /\ status = "running"
    /\ prev_lexeme.tag = "PLUS"
    /\ lexeme.tag = "NUMBER"
    /\ c = "\n"
    /\ stack # << >>
    /\ Top(stack) = Terminal("NUMBER")

\* The operator token of a binary action.
OperatorOf(a) ==
    CASE a = "Add" -> "PLUS" [] a = "Subtract" -> "MINUS"
      [] a = "Times" -> "TIMES" [] a = "Divide" -> "DIVIDE"

\* The values under the top k are the same after the step.
BelowUntouched(k) ==
    \A i \in 1..(Len(values) - k) : values'[i] = values[i]

\* C14: on a value stack that holds its operands, a binary action replaces
\* the top two values by (second from top) op (top) and shrinks the stack by
\* one; Negate replaces the top by its negation; Push adds the value of the
\* number just matched; Print removes the top and prints it; the values
\* below the operands stay as they were.
C14_ActionStackEffect ==
    [][ (/\ status = "running"
         /\ stack # << >>
         /\ Top(stack).kind = "Action"
         /\ status' = "running") =>
          LET a == Top(stack).sym
              n == Len(values)
          IN  CASE a \in {"Add", "Subtract", "Times", "Divide"} ->
                     /\ Len(values') = n - 1
                     /\ values'[n - 1] = Apply(OperatorOf(a), values[n - 1], values[n])
                     /\ BelowUntouched(2)
                [] a = "Negate" ->
                     /\ Len(values') = n
                     /\ values'[n] = FNeg(values[n])
                     /\ BelowUntouched(1)
                [] a = "Push" ->
                     /\ Len(values') = n + 1
                     /\ values'[n + 1] = prev_lexeme.val
                     /\ BelowUntouched(0)
                [] a = "Print" ->
                     /\ Len(values') = n - 1
                     /\ BelowUntouched(1)
                     /\ \E i \in 1..Len(out') :
                           i > Len(out) /\ out'[i] = Line("result", values[n]) ]_vars

\* A division has just run above another value: 2+3/2 holds 2 and 3/2.
C14_Witness ==
    /\ status = "running"
    /\ Len(out) >= 2
    /\ out[Len(out) - 1].kind = "trace"
    /\ Top(out[Len(out) - 1].arg[2]) = Action("Divide")
    /\ Len(values) = 2
    /\ values[1] # values[2]

\* The line in progress: the text after the last newline, or the line that
\* newline ends while nothing after it has been read.
CurLine ==
    IF read # << >> /\ read[Len(read)] = "\n"
    THEN SubSeq(read, LineStart(Len(read)), Len(read) - 1)
    ELSE LastLine(read)
\* Opening parentheses and unary minus signs of the line in progress.
Parens == Cardinality({i \in 1..Len(CurLine) : CurLine[i] = "("})
UnaryMinuses ==
    LET toks == RefTokens(CurLine)
    IN  Cardinality({i \in 1..Len(toks) :
                        /\ toks[i].tag = "MINUS"
                        /\ (i = 1 \/ toks[i - 1].tag \notin {"NUMBER", "CP"})})

\* C15: every match of a newline found the parse stack [Start, NL], so left
\* [Start]; from then to the next match the value stack is empty; and the
\* depths of both stacks are bounded by the parentheses and unary minus
\* signs of the one line in progress, whatever the number of lines before
\* it and of binary operators on it.
C15_StacksResetAtLineEnd ==
    /\ \A i \in Matches :
          out[i].arg[1] = "NL" => out[i].arg[2] = <<NonTerminal("Start"), Terminal("NL")>>
    /\ prev_lexeme.tag = "NL" => values = << >>
    /\ Len(stack) <= 9 + 5 * Parens + UnaryMinuses
    /\ Len(values) <= 3 + 2 * Parens

\* The newline of a second line has been matched.
C15_Witness ==
    /\ status = "running"
    /\ prev_lexeme.tag = "NL"
    /\ stack = <<NonTerminal("Start")>>
    /\ Cardinality(Results) = 2

RECURSIVE MatchedTags(_)
\* The tags of the terminals matched in the first i lines of stdout, in order.
MatchedTags(i) ==
    IF i = 0 THEN << >>
    ELSE IF IsMatch(i) THEN Append(MatchedTags(i - 1), out[i].arg[1])
         ELSE MatchedTags(i - 1)

\* The tags of the tokens of the bytes read that are not the end token.
NonEndTags == SelectSeq(Tags(AllTokens(read)), LAMBDA t : t # "END")

\* C16: when the loop finds the parse stack empty, the lookahead is the end
\* token, the value stack is empty, no character is pending, the source is
\* at its end (end of file, or the end-of-input character was the last byte
\* read), and the terminals matched are, in order, all the tokens of the
\* input before that end; so the stack is never empty while a token that is
\* not the end token is left unmatched.
C16_EmptyStackMeansInputDone ==
    (stack = << >> /\ status \in {"running", "success"}) =>
        /\ lexeme = END
        /\ values = << >>
        /\ c = NUL
        /\ source.eof \/ (read # << >> /\ read[Len(read)] = NUL)
        /\ MatchedTags(Len(out)) = NonEndTags

\* The Start symbol has just been popped after a line with an operator.
C16_Witness ==
    /\ status = "running"
    /\ stack = << >>
    /\ Cardinality(Matches) >= 4
    /\ Results # {}

\* The lexer state and source after one more call of lex that returned r.
AfterCall(r) == [c |-> r.c, source |-> r.src]

\* C17: once lex has returned END at the end of the source, a further call
\* returns END, prints nothing and leaves the pending character and the
\* source as they were, and so does the call after it.
C17_EndIsIdempotent ==
    (status # "init" /\ lexeme = END /\ source.eof) =>
        \A r \in lex(c, source) :
            /\ r.terminal = END
            /\ r.msgs = << >>
            /\ AfterCall(r) = [c |-> c, source |-> source]
            /\ \A r2 \in lex(r.c, r.src) :
                  /\ r2.terminal = END
                  /\ r2.msgs = << >>
                  /\ AfterCall(r2) = AfterCall(r)

\* END was returned at the end of a source that had delivered a line.
C17_Witness ==
    /\ lexeme = END
    /\ source.eof
    /\ Len(read) >= 2
    /\ read[Len(read)] = "\n"
    /\ status = "running"

(***************************************************************************)
(* lex on a given text.                                                    *)
(***************************************************************************)
\* The characters the last arm of lex's match reports.
Unrecognized(ch) ==
    ch \notin ({" ", "\t", NUL, "\n", "+", "-", "*", "/", "(", ")"} \cup Digits)
\* The text with each unrecognized character replaced by a space.
Spaced(text) == [i \in 1..Len(text) |-> IF Unrecognized(text[i]) THEN " " ELSE text[i]]

\* The outcomes of lex(cc, src) on a source that delivers text and then,
\* if eof, its end.
LexOn(text, eof, cc, src) ==
    {r \in lex(cc, src) :
        /\ Len(r.src.read) <= Len(text)
        /\ r.src.read = SubSeq(text, 1, Len(r.src.read))
        /\ r.src.eof => (eof /\ r.src.read = text)}

\* The source with the bytes it has delivered replaced likewise.
SpacedSource(src) == [src EXCEPT !.read = Spaced(@)]
Space(ch) == IF Unrecognized(ch) THEN " " ELSE ch
\* The number of unrecognized characters of a text.
UnrecognizedIn(text) == Cardinality({i \in 1..Len(text) : Unrecognized(text[i])})

\* C18: an unrecognized character is reported once and skipped.  Every call
\* of lex by the session, repeated from the corresponding lexer state on the
\* same input with each unrecognized character replaced by a space, returns
\* the same token with the same value, reads as many bytes, prints nothing
\* and ends in the corresponding state; hence the two token sequences are
\* equal.  The call on the input itself prints one `Invalid char` line for
\* each unrecognized character it scans.
C18_InvalidCharIsASpace ==
    [][ (\/ status = "init"
         \/ /\ status = "running"
            /\ stack # << >>
            /\ Top(stack) = Terminal(lexeme.tag)) =>
          /\ \A R \in {LexOn(Spaced(source'.read), source'.eof, Space(c), SpacedSource(source))} :
                /\ R # {}
                /\ \A r \in R :
                      /\ r.terminal = lexeme'
                      /\ r.c = Space(c')
                      /\ r.src = SpacedSource(source')
                      /\ r.msgs = << >>
          /\ Cardinality({i \in 1..Len(out') : out'[i].kind = "Invalid char"})
               - Cardinality(Printed("Invalid char"))
             = UnrecognizedIn(source'.read) - UnrecognizedIn(read)
               + (IF Unrecognized(c) THEN 1 ELSE 0) - (IF Unrecognized(c') THEN 1 ELSE 0) ]_vars

\* An unrecognized character between two digits was reported and the session
\* went on to read both numbers.
C18_Witness ==
    /\ source.feed = "any"
    /\ Len(read) >= 3
    /\ read[1] \in Digits /\ Unrecognized(read[2]) /\ read[3] \in Digits
    /\ Printed("Invalid char") # {}
    /\ lexeme.tag = "NUMBER"
    /\ prev_lexeme.tag = "NUMBER"

\* The tags of the tokens lex has returned in this session.
Delivered ==
    IF status = "init" THEN << >> ELSE Append(MatchedTags(Len(out)), lexeme.tag)

\* The bytes read that lex has turned into tokens: all of them but the
\* character that ended the digit run of the lookahead.
Tokenised ==
    IF lexeme.tag = "NUMBER" /\ read # << >> /\ read[Len(read)] \notin Digits
    THEN Pop(read) ELSE read

\* C19: every character read is classified once.  The tokens lex has
\* returned are, in order, the tokens of the bytes read, the character that
\* ended the digit run of the lookahead left aside as the pending one, with
\* one NUMBER for each maximal digit run and the end token after them at end
\* of file; none is missing and none appears twice.
C19_EveryCharClassifiedOnce ==
    status # "init" =>
        LET T == Tags(AllTokens(Tokenised))
        IN  \/ Delivered = T
            \/ lexeme = END /\ source.eof /\ Delivered = Append(T, "END")

\* The same on the inputs without a NUL byte.
ClassifiedOnceWithoutNul ==
    (\A i \in 1..Len(read) : read[i] # NUL) => C19_EveryCharClassifiedOnce

\* C20: the result of a well-formed line is printed when the last byte the
\* source has delivered is that line's newline: the iteration that prints it
\* has the newline as lookahead and Print on top of the stack, a newline
\* lookahead leaves no character pending, and once a byte after the newline
\* has been delivered, or the session has ended, the result is on stdout.
C20_ResultBeforeNextLineIsRead ==
    /\ lexeme.tag = "NL" => (c = NUL /\ read # << >> /\ read[Len(read)] = "\n")
    /\ \A i \in Results :
          /\ out[i - 1].kind = "trace"
          /\ Top(out[i - 1].arg[2]) = Action("Print")
          /\ OnWellFormedLine(i) => out[i - 1].arg[1] = "NL"
    /\ \A p \in NLPos :
          (WellFormed(LineTokens(p)) /\ PriorLinesOK(p) /\ (Len(read) > p \/ Ended)) =>
             \E i \in Results : outPos[i] = p /\ outPos[i - 1] = p

\* The result of a line in parentheses was printed at its newline and the
\* source has since delivered bytes of the next line.
C20_Witness ==
    \E i \in Results :
        /\ OnWellFormedLine(i)
        /\ read[1] = "("
        /\ Len(read) > outPos[i]
        /\ out[i - 1].arg[1] = "NL"

====
